---- MODULE Spec2Model ----
(***************************************************************************)
(* A model of pointspy.indexkd.IndexKD (src/pointspy/indexkd.py): one      *)
(* index object, its lazily built kd_tree / r_tree / nn caches and its     *)
(* query methods.                                                          *)
(*                                                                         *)
(* Conventions                                                             *)
(*  - Python arrays are zero-based functions: an array of length n has     *)
(*    DOMAIN 0..n-1, so point identifiers are the identifiers of the code. *)
(*  - Coordinates and radii are integers.  A Euclidean distance d is       *)
(*    carried as its square d*d (the order of distances is unchanged), a   *)
(*    Chebyshev distance (p = inf) as itself.                              *)
(*  - scipy.spatial.cKDTree and rtree.Rtree are libraries outside the      *)
(*    repository; they are modelled by their documented contracts.  The    *)
(*    order in which the backend reports equidistant neighbours is not     *)
(*    specified, so every order is a possible outcome.                     *)
(*  - A method call is one action.  It leaves the outcome (return value or *)
(*    raised exception) in `last`; Consume is the caller taking it.        *)
(***************************************************************************)
EXTENDS Integers, Sequences, FiniteSets, TLC

VARIABLES
    input,       \* arguments given to IndexKD(...), or None before construction
    _coords,     \* self._coords
    _transform,  \* self._transform
    _leafsize,   \* self._leafsize
    _balanced,   \* self._balanced
    _compact,    \* self._compact
    _kd_tree,    \* self._kd_tree, Unset while hasattr(self, '_kd_tree') is false
    _r_tree,     \* self._r_tree,  Unset while hasattr(self, '_r_tree') is false
    _NN,         \* self._NN,      Unset while hasattr(self, '_NN') is false
    kdBuilds,    \* history: number of cKDTree(...) constructions
    rBuilds,     \* history: number of Rtree(...) constructions
    failed,      \* history: some query on this index has raised
    last,        \* the call in flight: its method, arguments and outcome
    pc,          \* per thread: position inside the kd_tree / r_tree property
    got          \* per thread: what the property access returned

vars == <<input, _coords, _transform, _leafsize, _balanced, _compact,
          _kd_tree, _r_tree, _NN, kdBuilds, rBuilds, failed, last, pc, got>>

fields == <<input, _coords, _transform, _leafsize, _balanced, _compact>>

(***************************************************************************)
(* Bounds of the model                                                     *)
(***************************************************************************)
MaxN == 2        \* at most MaxN stored points
MaxQ == 2        \* a batch holds at most MaxQ query points

\* An attribute that is not set (hasattr is false), and one that is.
Unset == [set |-> FALSE]
Set(v) == [set |-> TRUE, v |-> v]
HasAttr(a) == a.set

\* Python's None as an argument
None == [none |-> TRUE]
Some(v) == [none |-> FALSE, v |-> v]

Idle == [op |-> "idle"]
Ok(v) == [status |-> "ok", value |-> v]
Raise(e) == [status |-> "raise", exc |-> e]

Range0(n) == 0 .. (n - 1)
Len0(a) == Cardinality(DOMAIN a)

\* a[lo:hi] of Python, for 0 <= lo and 0 <= hi
Slice0(a, lo, hi) ==
    LET n == Len0(a)
        l == IF lo < n THEN lo ELSE n
        h == IF hi < n THEN hi ELSE n
    IN  IF h <= l THEN [i \in {} |-> 0]
        ELSE [i \in Range0(h - l) |-> a[l + i]]

Concat0(a, b) ==
    [i \in Range0(Len0(a) + Len0(b)) |->
        IF i < Len0(a) THEN a[i] ELSE b[i - Len0(a)]]

Empty0 == [i \in {} |-> 0]

Abs(x) == IF x < 0 THEN 0 - x ELSE x

RECURSIVE SumTo(_, _)
SumTo(f, n) == IF n = 0 THEN 0 ELSE f[n - 1] + SumTo(f, n - 1)

RECURSIVE MaxTo(_, _)
MaxTo(f, n) ==
    IF n = 0 THEN 0
    ELSE LET m == MaxTo(f, n - 1) IN IF f[n - 1] > m THEN f[n - 1] ELSE m

(***************************************************************************)
(* Inputs                                                                  *)
(***************************************************************************)
\* the input points: the corners of the unit square
CoordVals == {0, 1}
Pts == [Range0(2) -> CoordVals]
PointSets == UNION {[Range0(n) -> Pts] : n \in 1 .. MaxN}

\* transformation.i_matrix(k): the (k+1)x(k+1) identity
i_matrix(k) == [i \in Range0(k + 1) |-> [j \in Range0(k + 1) |-> IF i = j THEN 1 ELSE 0]]

\* transformation.t_matrix(t): translation by t in homogeneous coordinates
t_matrix(t) ==
    LET k == Len0(t)
    IN  [i \in Range0(k + 1) |-> [j \in Range0(k + 1) |->
            IF i = j THEN 1 ELSE IF j = k /\ i < k THEN t[i] ELSE 0]]

\* the matrix exchanging the two axes of the plane
SwapXY == [i \in Range0(3) |-> [j \in Range0(3) |->
            IF (i = 2 /\ j = 2) \/ (i + j = 1) THEN 1 ELSE 0]]

Transforms ==
    {None, Some(t_matrix([i \in Range0(2) |-> IF i = 0 THEN 1 ELSE 0])), Some(SwapXY)}

\* transformation.transform(coords, T): T applied to every point
transformPoint(p, T) ==
    LET k == Len0(p)
    IN  [i \in Range0(k) |->
            SumTo([j \in Range0(k) |-> T[i][j] * p[j]], k) + T[i][k]]

transform(coords, T) == [i \in DOMAIN coords |-> transformPoint(coords[i], T)]

\* assertion.ensure_coords / assertion.ensure_tmatrix on valid input
ensure_coords(coords) == coords
ensure_tmatrix(T) == T

(***************************************************************************)
(* IndexKD.__init__, __len__, dim                                          *)
(***************************************************************************)
\* The coordinates __init__ stores.
InitTransform(coords, T) ==
    IF T.none THEN i_matrix(Len0(ensure_coords(coords)[0])) ELSE ensure_tmatrix(T.v)

\* __init__ keeping the coordinates as given, also under a transform
InitCoords_raw(coords, T) == ensure_coords(coords)

InitCoords(coords, T) ==
    IF T.none THEN ensure_coords(coords)
    ELSE transform(ensure_coords(coords), InitTransform(coords, T))

coords == _coords.v
\* __len__ returning shape[1], the number of columns
len_columns == Len0(coords[0])

len == Len0(coords)
dim == Len0(coords[0])

Constructed == HasAttr(input)
Ready == Constructed /\ last = Idle

(***************************************************************************)
(* scipy.spatial.cKDTree, by contract                                      *)
(***************************************************************************)
\* cKDTree(data, leafsize, copy_data=False, balanced_tree, compact_nodes)
cKDTree(data, leafsize, balanced_tree, compact_nodes) ==
    [data |-> data, m |-> Len0(data[0]), leafsize |-> leafsize,
     balanced_tree |-> balanced_tree, compact_nodes |-> compact_nodes]

\* Minkowski distance of order p between two points of equal length:
\* p = "2" gives the squared Euclidean distance, p = "inf" the Chebyshev one.
Dist(a, b, p) ==
    LET k == Len0(a)
    IN  IF p = "inf"
        THEN MaxTo([i \in Range0(k) |-> Abs(a[i] - b[i])], k)
        ELSE SumTo([i \in Range0(k) |-> (a[i] - b[i]) * (a[i] - b[i])], k)

\* distance(a, b) <= r in the representation of Dist
Within(a, b, r, p) ==
    /\ r >= 0
    /\ Dist(a, b, p) <= (IF p = "inf" THEN r ELSE r * r)

\* tree.query_ball_point(x, r, p) for one point x
query_ball_point(tree, x, r, p) ==
    IF Len0(x) # tree.m THEN Raise("ValueError")
    ELSE Ok({i \in DOMAIN tree.data : Within(tree.data[i], x, r, p)})

\* tree.query_ball_point(xs, r, p) for an array xs of shape (len, tree.m):
\* one result per row, in row order; no row, no result
query_ball_points(tree, xs, r, p) ==
    IF \E i \in DOMAIN xs : Len0(xs[i]) # tree.m THEN Raise("ValueError")
    ELSE Ok([i \in DOMAIN xs |-> query_ball_point(tree, xs[i], r, p).value])

(***************************************************************************)
(* IndexKD.kd_tree                                                         *)
(***************************************************************************)
\* self._kd_tree = cKDTree(self.coords, ...): the attribute after the
\* assignment; serial tells the trees of successive constructions apart
BuildKd ==
    [set |-> TRUE,
     v |-> cKDTree(coords, _leafsize, _balanced, _compact),
     serial |-> kdBuilds + 1]

\* kd_tree without the hasattr test: every access constructs a tree
kd_tree_rebuild == BuildKd

\* self._kd_tree after an access to the property: built if it was not there
kd_tree ==
    IF ~HasAttr(_kd_tree) THEN BuildKd ELSE _kd_tree

\* coords[:self.dim] of a point, coords[..., :self.dim] of the rows of an array
Trunc(x) == Slice0(x, 0, dim)
TruncRows(xs) == [i \in DOMAIN xs |-> Trunc(xs[i])]

(***************************************************************************)
(* IndexKD.ball, ball_iter, balls_iter                                     *)
(* Each method is an operator giving the outcome of the call and whether   *)
(* the call reached the kd_tree property.                                  *)
(***************************************************************************)
Out(res, kd) == [res |-> res, kd |-> kd]

IsInt(x) == x \in Int

\* Python's n // d for d # 0: the floor of the quotient, also for d < 0
FloorDiv(n, d) == IF d > 0 THEN n \div d ELSE (0 - n) \div (0 - d)

\* the chunk count without the "+ 1": the last, partial chunk is dropped
NChunks_floor(n, bulk) == FloorDiv(n, bulk)

\* coords.shape[0] // bulk + 1, the length of the range of chunks queried;
\* a range of non-positive length is empty
NChunks(n, bulk) == FloorDiv(n, bulk) + 1

\* the chunks i, i+1, ..., last of ball_iter, drained
RECURSIVE BallChunks(_, _, _, _, _, _)
BallChunks(xs, r, bulk, p, i, nchunks) ==
    IF i >= nchunks THEN Ok(Empty0)
    ELSE LET nIds == query_ball_points(kd_tree.v,
                        TruncRows(Slice0(xs, bulk * i, bulk * (i + 1))), r, p)
         IN  IF nIds.status = "raise" THEN nIds
             ELSE LET rest == BallChunks(xs, r, bulk, p, i + 1, nchunks)
                  IN  IF rest.status = "raise" THEN rest
                      ELSE Ok(Concat0(nIds.value, rest.value))

\* list(self.ball_iter(xs, r, bulk, p=p))
ball_iter(xs, r, bulk, p) ==
    IF ~IsInt(bulk) /\ bulk > 0 THEN Out(Raise("ValueError"), FALSE)
    ELSE IF bulk = 0 THEN Out(Raise("ZeroDivisionError"), FALSE)
    ELSE Out(BallChunks(xs, r, bulk, p, 0, NChunks(Len0(xs), bulk)),
             NChunks(Len0(xs), bulk) > 0)

\* the pairs i, i+1, ... of balls_iter, drained; zip stops at the shorter one
RECURSIVE BallPairs(_, _, _, _, _)
BallPairs(xs, radii, p, i, n) ==
    IF i >= n THEN Ok(Empty0)
    ELSE LET nIds == query_ball_point(kd_tree.v, Trunc(xs[i]), radii[i], p)
         IN  IF nIds.status = "raise" THEN nIds
             ELSE LET rest == BallPairs(xs, radii, p, i + 1, n)
                  IN  IF rest.status = "raise" THEN rest
                      ELSE Ok(Concat0([j \in Range0(1) |-> nIds.value], rest.value))

\* list(self.balls_iter(xs, radii, p=p))
balls_iter(xs, radii, p) ==
    LET n == IF Len0(xs) < Len0(radii) THEN Len0(xs) ELSE Len0(radii)
    IN  Out(BallPairs(xs, radii, p, 0, n), n > 0)

\* self.ball(c, r, bulk, p=p): c is Point(x) or Batch(xs), r is Scalar(v) or Iter(vs)
Point(x) == [ndarray2 |-> FALSE, v |-> x]
Batch(xs) == [ndarray2 |-> TRUE, v |-> xs]
Scalar(r) == [iter |-> FALSE, v |-> r]
Iter(rs) == [iter |-> TRUE, v |-> rs]

\* ball handing the query point to the tree without the cut [:self.dim]
ball_notrunc(c, r, bulk, p) ==
    IF r.iter THEN balls_iter(c.v, r.v, p)
    ELSE IF c.ndarray2 THEN ball_iter(c.v, r.v, bulk, p)
    ELSE Out(query_ball_point(kd_tree.v, c.v, r.v, p), TRUE)

ball(c, r, bulk, p) ==
    IF r.iter THEN balls_iter(c.v, r.v, p)
    ELSE IF c.ndarray2 THEN ball_iter(c.v, r.v, bulk, p)
    ELSE Out(query_ball_point(kd_tree.v, Trunc(c.v), r.v, p), TRUE)

(***************************************************************************)
(* IndexKD.sphere, cube, ball_count, ball_cut, upper_ball, lower_ball      *)
(***************************************************************************)
IsNumber(x) == x \in Int

\* np.intersect1d(a, b): the sorted values that are in both
intersect1d(a, b) == a \cap b

\* self.sphere(c, r_min, r_max)
sphere(c, r_min, r_max) ==
    IF ~IsNumber(r_min) /\ r_min > 0 THEN Out(Raise("ValueError"), FALSE)
    ELSE IF ~IsNumber(r_max) /\ r_max > r_min THEN Out(Raise("ValueError"), FALSE)
    ELSE LET inner == ball(Point(Trunc(c)), Scalar(r_min), 100000, "2")
             outer == ball(Point(Trunc(c)), Scalar(r_max), 100000, "2")
         IN  IF inner.res.status = "raise" THEN inner
             ELSE IF outer.res.status = "raise" THEN outer
             ELSE Out(Ok(intersect1d(outer.res.value, inner.res.value)), TRUE)

\* self.cube(c, r): the ball of the Chebyshev distance
cube(c, r) == ball(c, r, 100000, "inf")

\* np.array(list(map(len, nIdsGen)))
Counts(res) ==
    IF res.status = "raise" THEN res
    ELSE Ok([i \in DOMAIN res.value |-> Cardinality(res.value[i])])

\* self.ball_count(r, coords=xs, p=2); xs = None stands for self.coords
ball_count(r, xs) ==
    LET cs == IF xs.none THEN coords ELSE xs.v
        nIdsGen == IF r.iter THEN balls_iter(cs, r.v, "2")
                   ELSE ball_iter(cs, r.v, 10000, "2")
    IN  Out(Counts(nIdsGen.res), nIdsGen.kd)

\* the filters of ball_cut: pA is the center, pB the candidate; axis may be -1
PyIndex(a, i) == IF i < 0 THEN a[Len0(a) + i] ELSE a[i]
Filter(name, axis, pA, pB) ==
    IF name = "upper" THEN PyIndex(pA, axis) > PyIndex(pB, axis)
    ELSE PyIndex(pA, axis) < PyIndex(pB, axis)

\* self.ball_cut(c, delta, p=2, filter=...)
ball_cut(c, delta, name, axis) ==
    LET nIds == ball(Point(c), Scalar(delta), 100000, "2")
    IN  IF nIds.res.status = "raise" THEN nIds
        ELSE Out(Ok({nId \in nIds.res.value : Filter(name, axis, c, coords[nId])}), TRUE)

\* self.upper_ball / self.lower_ball call self.ballCut, which IndexKD does not have
upper_ball(c, delta, axis) == Out(Raise("AttributeError"), FALSE)
lower_ball(c, delta, axis) == Out(Raise("AttributeError"), FALSE)

(***************************************************************************)
(* IndexKD.knn, knn_iter, knns_iter, nn, closest                           *)
(* The order in which the backend reports equidistant neighbours is not    *)
(* specified.  A call is given a tie-break tb, a ranking of the            *)
(* identifiers that decides between equidistant points during that call;   *)
(* the actions choose it freely, so every order of a tie can occur.        *)
(***************************************************************************)
\* the distance scipy reports for a missing neighbour (infinity)
InfDist == 0 - 1

\* the rankings of the identifiers of the stored points
TieBreaks ==
    {tb \in [DOMAIN coords -> DOMAIN coords] :
        \A i, j \in DOMAIN coords : i # j => tb[i] # tb[j]}

\* the distances of the first n points of data to x, as a sequence
RECURSIVE Dists(_, _, _, _)
Dists(data, x, p, n) ==
    IF n = 0 THEN <<>> ELSE Append(Dists(data, x, p, n - 1), Dist(data[n - 1], x, p))

\* tree.query(x, k, p) for one point x: the k nearest points in order of
\* distance, as (dists, ids) of length k; if fewer than k points exist the
\* rest is padded with infinite distance and the identifier n
query(tree, x, k, p, tb) ==
    IF Len0(x) # tree.m THEN Raise("ValueError")
    ELSE LET n == Len0(tree.data)
             d == Dists(tree.data, x, p, n)
             before(o, i) ==
                d[o + 1] < d[i + 1] \/ (d[o + 1] = d[i + 1] /\ tb[o] < tb[i])
             s(j) == CHOOSE i \in Range0(n) :
                        Cardinality({o \in Range0(n) : before(o, i)}) = j
         IN  Ok([dists |-> [j \in Range0(k) |-> IF j < n THEN d[s(j) + 1] ELSE InfDist],
                 ids |-> [j \in Range0(k) |-> IF j < n THEN s(j) ELSE n]])

\* tree.query(xs, k, p) for an array xs of shape (len, tree.m): one
\* (dists, ids) pair per row, in row order; no row, no pair
queryRows(tree, xs, k, p, tb) ==
    IF \E i \in DOMAIN xs : Len0(xs[i]) # tree.m THEN Raise("ValueError")
    ELSE Ok([i \in DOMAIN xs |-> query(tree, xs[i], k, p, tb).value])

\* the chunks i, i+1, ..., last of knn_iter, drained
RECURSIVE KnnChunks(_, _, _, _, _, _, _)
KnnChunks(xs, k, bulk, p, tb, i, nchunks) ==
    IF i >= nchunks THEN Ok(Empty0)
    ELSE LET chunk == queryRows(kd_tree.v,
                        TruncRows(Slice0(xs, bulk * i, bulk * (i + 1))), k, p, tb)
         IN  IF chunk.status = "raise" THEN chunk
             ELSE LET rest == KnnChunks(xs, k, bulk, p, tb, i + 1, nchunks)
                  IN  IF rest.status = "raise" THEN rest
                      ELSE Ok(Concat0(chunk.value, rest.value))

\* list(self.knn_iter(xs, k, bulk, p=p)): one (dists, ids) pair per yield
knn_iter(xs, k, bulk, p, tb) ==
    IF ~IsInt(bulk) /\ bulk > 0 THEN Out(Raise("ValueError"), FALSE)
    ELSE IF bulk = 0 THEN Out(Raise("ZeroDivisionError"), FALSE)
    ELSE Out(KnnChunks(xs, k, bulk, p, tb, 0, NChunks(Len0(xs), bulk)),
             NChunks(Len0(xs), bulk) > 0)

\* list(self.knns_iter(xs, ks)): coord[:, :self.dim] of a row coord of a
\* two-dimensional array raises IndexError, after self.kd_tree was read
knns_iter(xs, ks) ==
    LET n == IF Len0(xs) < Len0(ks) THEN Len0(xs) ELSE Len0(ks)
    IN  IF n = 0 THEN Out(Ok(Empty0), FALSE)
        ELSE Out(Raise("IndexError"), TRUE)

\* zip(*pairs) followed by np.array: the columns dists and ids
Unzip(res) ==
    IF res.status = "raise" THEN res
    ELSE Ok([dists |-> [i \in DOMAIN res.value |-> res.value[i].dists],
             ids |-> [i \in DOMAIN res.value |-> res.value[i].ids]])

\* self.knn(c, k, bulk, p=p): c is Point(x) or Batch(xs), k is Scalar(v) or Iter(vs).
\* With an iterable k it calls self.knns_iter(c, k=k), which lacks the
\* argument ks: TypeError at the call, before the generator runs.
knn(c, k, bulk, p, tb) ==
    IF k.iter THEN Out(Raise("TypeError"), FALSE)
    ELSE IF c.ndarray2
         THEN LET o == knn_iter(c.v, k.v, bulk, p, tb) IN Out(Unzip(o.res), o.kd)
    ELSE Out(query(kd_tree.v, Trunc(c.v), k.v, p, tb), TRUE)

\* column 1 of the arrays of a batch answer, element 1 of those of a point
Second(res, batch) ==
    IF res.status = "raise" THEN res
    ELSE IF batch
         THEN Ok([dists |-> [i \in DOMAIN res.value.dists |-> res.value.dists[i][1]],
                  ids |-> [i \in DOMAIN res.value.ids |-> res.value.ids[i][1]]])
    ELSE Ok([dists |-> res.value.dists[1], ids |-> res.value.ids[1]])

\* nn without the hasattr test: every access queries the tree again
nn_recompute(tb) ==
    LET o == knn(Batch(coords), Scalar(2), 100000, "2", tb)
        snd == Second(o.res, TRUE)
    IN  [res |-> snd, kd |-> o.kd,
         NN |-> IF snd.status = "raise" THEN _NN ELSE Set(snd.value)]

\* the property self.nn: the outcome and the value of self._NN afterwards
nn(tb) ==
    IF HasAttr(_NN) THEN [res |-> Ok(_NN.v), kd |-> FALSE, NN |-> _NN]
    ELSE LET o == knn(Batch(coords), Scalar(2), 100000, "2", tb)
             snd == Second(o.res, TRUE)
         IN  [res |-> snd, kd |-> o.kd,
              NN |-> IF snd.status = "raise" THEN _NN ELSE Set(snd.value)]

\* self.closest(ids): ids is Scalar(id) or Iter(array of ids)
closest(ids, tb) ==
    IF ids.iter
    THEN LET o == knn(Batch([i \in DOMAIN ids.v |-> coords[ids.v[i]]]),
                      Scalar(2), 100000, "2", tb)
         IN  Out(Second(o.res, TRUE), o.kd)
    ELSE LET o == knn(Point(coords[ids.v]), Scalar(2), 100000, "2", tb)
         IN  Out(Second(o.res, FALSE), o.kd)

(***************************************************************************)
(* IndexKD.r_tree, box, box_count                                          *)
(***************************************************************************)
\* rtree.Rtree(gen(), properties=p): one entry (id, box of the point, id)
\* per stored point
Rtree(data) == [data |-> data]

\* tree.intersection(extent, objects='raw'): the identifiers of the entries
\* whose box meets the extent (minima first, then maxima), bounds included
intersection(tree, extent) ==
    LET k == Len0(extent) \div 2
    IN  {i \in DOMAIN tree.data :
            \A a \in Range0(k) :
                extent[a] <= tree.data[i][a] /\ tree.data[i][a] <= extent[k + a]}

\* The property self.r_tree.  Without a cached tree it calls self.dim(), and
\* self.dim is a property whose value is an int: TypeError, nothing is cached.
r_tree ==
    IF ~HasAttr(_r_tree) THEN Raise("TypeError") ELSE Ok(_r_tree.v)

\* r_tree assigning the tree before it is filled: the exception leaves an
\* empty tree behind
r_tree_after_partial == Set(Rtree(Empty0))

\* self._r_tree after an access to the property: the exception is raised
\* before the assignment, so the attribute stays as it was
r_tree_after == _r_tree

\* self.box(extent)
box(extent) ==
    IF r_tree.status = "raise" THEN Out(r_tree, FALSE)
    ELSE Out(Ok(intersection(r_tree.value, extent)), FALSE)

\* self.box_count(extent) reads self.tTree, which IndexKD does not have
box_count(extent) == Out(Raise("AttributeError"), FALSE)

(***************************************************************************)
(* IndexKD.slice                                                           *)
(***************************************************************************)
\* np.argsort(values): the default quicksort is not stable, so every
\* permutation that sorts the values is a possible answer
argsort(values) ==
    {o \in [DOMAIN values -> DOMAIN values] :
        \A i, j \in DOMAIN values :
            i < j => o[i] # o[j] /\ values[o[i]] <= values[o[j]]}

\* bisect.bisect_left(a, x) on a sorted array a
bisect_left(a, x) == Cardinality({i \in DOMAIN a : a[i] < x})

\* a[lo:hi] of Python, negative positions counted from the end
PySlice(a, lo, hi) ==
    LET n == Len0(a)
        pos(i) == IF i >= 0 THEN i ELSE IF i + n < 0 THEN 0 ELSE i + n
    IN  Slice0(a, pos(lo), pos(hi))

\* np.sort of an array of distinct identifiers
sort(a) ==
    LET S == {a[i] : i \in DOMAIN a}
    IN  [i \in DOMAIN a |->
            CHOOSE v \in S : Cardinality({w \in S : w < v}) = i]

\* self.slice(min_th, max_th, axis): the set of possible outcomes
slice(min_th, max_th, axis) ==
    IF ~IsNumber(min_th) /\ min_th > 0 THEN {Raise("ValueError")}
    ELSE IF ~IsNumber(max_th) /\ max_th > min_th THEN {Raise("ValueError")}
    ELSE IF ~IsInt(axis) /\ Abs(axis) < dim THEN {Raise("ValueError")}
    ELSE IF axis >= dim \/ axis < 0 - dim THEN {Raise("IndexError")}
    ELSE LET values == [i \in DOMAIN coords |-> PyIndex(coords[i], axis)]
         IN  {LET sorted == [i \in DOMAIN order |-> values[order[i]]]
                  iMin == bisect_left(sorted, min_th) - 1
                  iMax == bisect_left(sorted, max_th)
              IN  Ok(sort(PySlice(order, iMin, iMax))) :
                order \in argsort(values)}

(***************************************************************************)
(* Arguments of the calls                                                  *)
(***************************************************************************)
LeafSizes == {16}
QuickBuilds == {TRUE}
Radii == {1, 2}
\* radii that are not positive
BadRadii == {0}
\* bulk sizes: zero, a negative one, and sizes up to one more than a batch
Bulks == (0 - 1) .. (MaxQ + 1)
Ks == {1, 2}
Axes == {0 - 1, 0, 1}
Thresholds == {0, 1, 2}
\* query points: the corners of the square, one point with a third coordinate
\* and one point with a single coordinate
QPts == Pts \cup {[i \in Range0(3) |-> 1], [i \in Range0(1) |-> 0]}
\* two opposite corners of the square
BatchPts == {p \in Pts : p[0] = p[1]}
\* batches of 1, 2, ... query points that alternate between the two corners
Batches ==
    {[i \in Range0(n) |-> [a \in Range0(2) |-> i % 2]] : n \in 1 .. MaxQ}
\* one radius, or one k, per query point of a batch
RadiiFor(xs) == [DOMAIN xs -> Radii]
KsFor(xs) == [DOMAIN xs -> {1, 2}]
\* extents: minima first, then maxima
Extents ==
    {e \in [Range0(4) -> {0, 2}] : e[0] <= e[2] /\ e[1] <= e[3]}
Threads == {"t1", "t2"}

(***************************************************************************)
(* Actions                                                                 *)
(***************************************************************************)
Init ==
    /\ input = Unset
    /\ _coords = Unset
    /\ _transform = Unset
    /\ _leafsize = 0
    /\ _balanced = FALSE
    /\ _compact = FALSE
    /\ _kd_tree = Unset
    /\ _r_tree = Unset
    /\ _NN = Unset
    /\ kdBuilds = 0
    /\ rBuilds = 0
    /\ failed = FALSE
    /\ last = Idle
    /\ pc = [t \in Threads |-> "idle"]
    /\ got = [t \in Threads |-> Unset]

\* IndexKD(pts, transform=T, leafsize=leafsize, quickbuild=quickbuild)
Construct ==
    \E pts \in PointSets, T \in Transforms, leafsize \in LeafSizes,
       quickbuild \in QuickBuilds :
        /\ ~Constructed
        /\ ~(~IsInt(leafsize) /\ leafsize > 0)
        /\ quickbuild \in BOOLEAN
        /\ input' = Set([coords |-> pts, transform |-> T])
        /\ _leafsize' = leafsize
        /\ _balanced' = ~quickbuild
        /\ _compact' = ~quickbuild
        /\ _coords' = Set(InitCoords(pts, T))
        /\ _transform' = Set(InitTransform(pts, T))
        /\ UNCHANGED <<_kd_tree, _r_tree, _NN, kdBuilds, rBuilds, failed, last, pc, got>>

\* The effect of a call with outcome out on the index and the history.
Effect(op, args, out) ==
    /\ last' = [op |-> op, args |-> args, res |-> out.res]
    /\ _kd_tree' = IF out.kd THEN kd_tree ELSE _kd_tree
    /\ kdBuilds' = IF out.kd /\ kd_tree # _kd_tree THEN kdBuilds + 1 ELSE kdBuilds
    /\ failed' = (failed \/ out.res.status = "raise")

Rest == <<fields, _r_tree, rBuilds, pc, got>>
RestR == <<fields, rBuilds, pc, got>>

\* indexKD.ball(c, r): one point; an array of points; one radius per point
Ball ==
    /\ Ready
    /\ \/ \E c \in QPts, r \in Radii :
            Effect("ball", [c |-> Point(c), r |-> Scalar(r)],
                   ball(Point(c), Scalar(r), 100000, "2"))
       \/ \E c \in BatchPts, r \in BadRadii :
            Effect("ball", [c |-> Point(c), r |-> Scalar(r)],
                   ball(Point(c), Scalar(r), 100000, "2"))
       \/ \E xs \in Batches, r \in Radii :
            Effect("ball", [c |-> Batch(xs), r |-> Scalar(r)],
                   ball(Batch(xs), Scalar(r), 100000, "2"))
       \/ \E xs \in Batches : \E radii \in RadiiFor(xs) :
            Effect("ball", [c |-> Batch(xs), r |-> Iter(radii)],
                   ball(Batch(xs), Iter(radii), 100000, "2"))
    /\ UNCHANGED <<Rest, _NN>>

\* list(indexKD.ball_iter(xs, r, bulk=bulk))
BallIter ==
    \E xs \in Batches, r \in Radii, bulk \in Bulks :
        /\ Ready
        /\ Effect("ball_iter", [c |-> xs, r |-> r, bulk |-> bulk],
                  ball_iter(xs, r, bulk, "2"))
        /\ UNCHANGED <<Rest, _NN>>

\* list(indexKD.balls_iter(xs, radii))
BallsIter ==
    \E xs \in Batches : \E radii \in RadiiFor(xs) :
        /\ Ready
        /\ Effect("balls_iter", [c |-> xs, r |-> radii], balls_iter(xs, radii, "2"))
        /\ UNCHANGED <<Rest, _NN>>

\* indexKD.ball_count(r) and indexKD.ball_count(r, coords=xs)
BallCount ==
    /\ Ready
    /\ \/ \E r \in Radii, xs \in {None} \cup {Some(b) : b \in Batches} :
            Effect("ball_count", [r |-> Scalar(r), c |-> xs], ball_count(Scalar(r), xs))
       \/ \E radii \in RadiiFor(coords) :
            Effect("ball_count", [r |-> Iter(radii), c |-> None],
                   ball_count(Iter(radii), None))
    /\ UNCHANGED <<Rest, _NN>>

\* indexKD.sphere(c, r_min, r_max)
Sphere ==
    \E c \in QPts, r_min \in Radii, r_max \in Radii :
        /\ Ready
        /\ Effect("sphere", [c |-> c, r_min |-> r_min, r_max |-> r_max],
                  sphere(c, r_min, r_max))
        /\ UNCHANGED <<Rest, _NN>>

\* indexKD.cube(c, r)
Cube ==
    \E c \in QPts, r \in Radii :
        /\ Ready
        /\ Effect("cube", [c |-> c, r |-> r], cube(Point(c), Scalar(r)))
        /\ UNCHANGED <<Rest, _NN>>

\* indexKD.knn(c, k): one point; an array of points
Knn ==
    /\ Ready
    /\ \E tb \in TieBreaks :
        \/ \E c \in QPts, k \in Ks :
            Effect("knn", [c |-> Point(c), k |-> Scalar(k)],
                   knn(Point(c), Scalar(k), 100000, "2", tb))
        \/ \E xs \in Batches, k \in Ks :
            Effect("knn", [c |-> Batch(xs), k |-> Scalar(k)],
                   knn(Batch(xs), Scalar(k), 100000, "2", tb))
    /\ UNCHANGED <<Rest, _NN>>

\* indexKD.knn(xs, k=ks) with one k per point
KnnKs ==
    /\ Ready
    /\ \E xs \in Batches : \E ks \in KsFor(xs) :
        Effect("knn", [c |-> Batch(xs), k |-> Iter(ks)],
               knn(Batch(xs), Iter(ks), 100000, "2", [i \in DOMAIN coords |-> i]))
    /\ UNCHANGED <<Rest, _NN>>

\* list(indexKD.knn_iter(xs, k, bulk=bulk))
KnnIter ==
    /\ Ready
    /\ \E xs \in Batches, k \in Ks, bulk \in Bulks, tb \in TieBreaks :
        Effect("knn_iter", [c |-> xs, k |-> k, bulk |-> bulk],
               knn_iter(xs, k, bulk, "2", tb))
    /\ UNCHANGED <<Rest, _NN>>

\* list(indexKD.knns_iter(xs, ks))
KnnsIter ==
    \E xs \in Batches : \E ks \in KsFor(xs) :
        /\ Ready
        /\ Effect("knns_iter", [c |-> xs, ks |-> ks], knns_iter(xs, ks))
        /\ UNCHANGED <<Rest, _NN>>

\* indexKD.nn
NN ==
    /\ Ready
    /\ \E tb \in TieBreaks :
        /\ Effect("nn", [cached |-> HasAttr(_NN)], nn(tb))
        /\ _NN' = nn(tb).NN
    /\ UNCHANGED Rest

\* indexKD.closest(id) and indexKD.closest([id, id])
Closest ==
    /\ Ready
    /\ \E tb \in TieBreaks :
        \/ \E id \in DOMAIN coords :
            Effect("closest", [ids |-> Scalar(id)], closest(Scalar(id), tb))
        \/ \E ids \in [Range0(2) -> DOMAIN coords] :
            Effect("closest", [ids |-> Iter(ids)], closest(Iter(ids), tb))
    /\ UNCHANGED <<Rest, _NN>>

\* indexKD.box(extent)
Box ==
    \E extent \in Extents :
        /\ Ready
        /\ Effect("box", [extent |-> extent], box(extent))
        /\ _r_tree' = r_tree_after
        /\ UNCHANGED <<RestR, _NN>>

\* indexKD.box_count(extent)
BoxCount ==
    \E extent \in Extents :
        /\ Ready
        /\ Effect("box_count", [extent |-> extent], box_count(extent))
        /\ UNCHANGED <<Rest, _NN>>

\* indexKD.slice(min_th, max_th, axis)
Slice ==
    \E min_th \in Thresholds, max_th \in Thresholds, axis \in Axes :
        /\ Ready
        /\ \E res \in slice(min_th, max_th, axis) :
            Effect("slice", [min_th |-> min_th, max_th |-> max_th, axis |-> axis],
                   Out(res, FALSE))
        /\ UNCHANGED <<Rest, _NN>>

\* indexKD.ball_cut(c, delta), indexKD.upper_ball(c, delta, axis=axis),
\* indexKD.lower_ball(c, delta, axis=axis)
BallCut ==
    \E c \in QPts, delta \in Radii :
        /\ Ready
        /\ Effect("ball_cut", [c |-> c, delta |-> delta],
                  ball_cut(c, delta, "default", 0 - 1))
        /\ UNCHANGED <<Rest, _NN>>

UpperBall ==
    \E c \in BatchPts, delta \in Radii, axis \in Axes :
        /\ Ready
        /\ Effect("upper_ball", [c |-> c, delta |-> delta, axis |-> axis],
                  upper_ball(c, delta, axis))
        /\ UNCHANGED <<Rest, _NN>>

LowerBall ==
    \E c \in BatchPts, delta \in Radii, axis \in Axes :
        /\ Ready
        /\ Effect("lower_ball", [c |-> c, delta |-> delta, axis |-> axis],
                  lower_ball(c, delta, axis))
        /\ UNCHANGED <<Rest, _NN>>

\* the caller takes the outcome of the call
Consume ==
    /\ last # Idle
    /\ last' = Idle
    /\ UNCHANGED <<fields, _kd_tree, _r_tree, _NN, kdBuilds, rBuilds, failed, pc, got>>

Next ==
    \/ Construct
    \/ Ball
    \/ BallIter
    \/ BallsIter
    \/ BallCount
    \/ Sphere
    \/ Cube
    \/ Knn
    \/ KnnKs
    \/ KnnIter
    \/ KnnsIter
    \/ NN
    \/ Closest
    \/ Box
    \/ BoxCount
    \/ Slice
    \/ BallCut
    \/ UpperBall
    \/ LowerBall
    \/ Consume

Spec == Init /\ [][Next]_vars

(***************************************************************************)
(* Two threads reading the lazily built properties of one index.  The      *)
(* properties take no lock, so the interpreter may switch threads between  *)
(* the hasattr test, the construction with its assignment, and the return. *)
(***************************************************************************)
Goto(t, label) == pc' = [pc EXCEPT ![t] = label]
SeqVars == <<fields, _NN, failed, last>>

\* kd_tree, line 115: if not hasattr(self, '_kd_tree')
KdCheck(t) ==
    /\ Constructed
    /\ pc[t] = "idle"
    /\ Goto(t, IF ~HasAttr(_kd_tree) THEN "kd_build" ELSE "kd_return")
    /\ UNCHANGED <<SeqVars, _kd_tree, _r_tree, kdBuilds, rBuilds, got>>

\* kd_tree, lines 116-122: self._kd_tree = cKDTree(...)
KdBuild(t) ==
    /\ pc[t] = "kd_build"
    /\ _kd_tree' = BuildKd
    /\ kdBuilds' = kdBuilds + 1
    /\ Goto(t, "kd_return")
    /\ UNCHANGED <<SeqVars, _r_tree, rBuilds, got>>

\* kd_tree, line 123: return self._kd_tree
KdReturn(t) ==
    /\ pc[t] = "kd_return"
    /\ got' = [got EXCEPT ![t] = Ok(_kd_tree)]
    /\ Goto(t, "done")
    /\ UNCHANGED <<SeqVars, _kd_tree, _r_tree, kdBuilds, rBuilds>>

\* r_tree, line 127 (and line 141 when the tree is there)
RCheck(t) ==
    /\ Constructed
    /\ pc[t] = "idle"
    /\ IF ~HasAttr(_r_tree)
       THEN Goto(t, "r_build") /\ UNCHANGED got
       ELSE Goto(t, "done") /\ got' = [got EXCEPT ![t] = Ok(_r_tree)]
    /\ UNCHANGED <<SeqVars, _kd_tree, _r_tree, kdBuilds, rBuilds>>

\* r_tree, lines 130-131: p.dimension = self.dim() raises TypeError
RBuild(t) ==
    /\ pc[t] = "r_build"
    /\ got' = [got EXCEPT ![t] = r_tree]
    /\ _r_tree' = r_tree_after
    /\ Goto(t, "done")
    /\ UNCHANGED <<SeqVars, _kd_tree, kdBuilds, rBuilds>>

NextConc ==
    \/ Construct
    \/ \E t \in Threads : KdCheck(t)
    \/ \E t \in Threads : KdBuild(t)
    \/ \E t \in Threads : KdReturn(t)
    \/ \E t \in Threads : RCheck(t)
    \/ \E t \in Threads : RBuild(t)

SpecConc == Init /\ [][NextConc]_vars

(***************************************************************************)
(* The constructor with arbitrary leafsize and quickbuild arguments.       *)
(* A number is [isint, v]: the integer v, or the non-integer v + 1/2.      *)
(***************************************************************************)
IntArg(n) == [isint |-> TRUE, v |-> n]
HalfArg(n) == [isint |-> FALSE, v |-> n]
\* x > 0
Positive(x) == IF x.isint THEN x.v > 0 ELSE x.v >= 0

\* leafsize arguments: -1, 0, 1, 16, -1.5 and 1.5
LeafSizeArgs == {IntArg(n) : n \in {0 - 1, 0, 1, 16}} \cup {HalfArg(0 - 2), HalfArg(1)}
\* quickbuild arguments with their truth value: True, False, and the string
\* "yes", which is no boolean
QuickBuildArgs == {[isbool |-> TRUE, truthy |-> b] : b \in BOOLEAN}
                    \cup {[isbool |-> FALSE, truthy |-> TRUE]}

\* the checks of __init__: the exception raised, or no exception
InitChecks(leafsize, quickbuild) ==
    IF ~leafsize.isint /\ Positive(leafsize) THEN Raise("ValueError")
    ELSE IF ~quickbuild.isbool THEN Raise("ValueError")
    ELSE Ok("IndexKD")

\* IndexKD(pts, transform=T, leafsize=leafsize, quickbuild=quickbuild), with
\* the outcome recorded: the new object, or the exception and no object
New ==
    \E pts \in PointSets, T \in Transforms, leafsize \in LeafSizeArgs,
       quickbuild \in QuickBuildArgs :
        LET out == InitChecks(leafsize, quickbuild)
            ok == out.status = "ok"
        IN  /\ ~Constructed
            /\ last = Idle
            /\ last' = [op |-> "__init__",
                        args |-> [leafsize |-> leafsize, quickbuild |-> quickbuild],
                        res |-> out]
            /\ failed' = ~ok
            /\ input' = IF ok THEN Set([coords |-> pts, transform |-> T]) ELSE input
            /\ _leafsize' = IF ok THEN leafsize ELSE _leafsize
            /\ _balanced' = IF ok THEN ~quickbuild.truthy ELSE _balanced
            /\ _compact' = IF ok THEN ~quickbuild.truthy ELSE _compact
            /\ _coords' = IF ok THEN Set(InitCoords(pts, T)) ELSE _coords
            /\ _transform' = IF ok THEN Set(InitTransform(pts, T)) ELSE _transform
            /\ UNCHANGED <<_kd_tree, _r_tree, _NN, kdBuilds, rBuilds, pc, got>>

NextInit == New

SpecInit == Init /\ [][NextInit]_vars

(***************************************************************************)
(* Properties                                                              *)
(***************************************************************************)
SqDist(a, b, k) == SumTo([i \in Range0(k) |-> (a[i] - b[i]) * (a[i] - b[i])], k)

\* the identifiers of the points of pts within Euclidean distance r of c
BruteBall(pts, c, r) ==
    {i \in DOMAIN pts : SqDist(pts[i], c, Len0(pts[i])) <= r * r}

\* the ascending array of the members of a set of identifiers
Ascending(S) ==
    [j \in Range0(Cardinality(S)) |->
        CHOOSE v \in S : Cardinality({w \in S : w < v}) = j]

Called(op) == last.op = op
Returned(op) == last.op = op /\ last.res.status = "ok"
\* ball(c, r) with one point c and one radius r
BallOfPoint == Called("ball") /\ ~last.args.c.ndarray2 /\ ~last.args.r.iter
InputDim == Len0(input.v.coords[0])

DistanceOps ==
    {"ball", "ball_iter", "balls_iter", "ball_count", "sphere",
     "knn", "knn_iter", "nn", "closest", "cube"}

\* C1: the kd_tree is built at most once.  No tree exists right after
\* construction; a tree that exists is never replaced and no further tree is
\* constructed; the step that creates it is the first construction and
\* builds it from the whole coordinate snapshot; and after a distance-family
\* query has returned the tree exists (a chunked query over no chunk at all,
\* bulk <= 0, queries nothing).
C1_Step ==
    /\ (~Constructed /\ Constructed') => (~HasAttr(_kd_tree') /\ kdBuilds' = 0)
    /\ HasAttr(_kd_tree) => (_kd_tree' = _kd_tree /\ kdBuilds' = kdBuilds)
    /\ (~HasAttr(_kd_tree) /\ HasAttr(_kd_tree')) =>
            (kdBuilds = 0 /\ kdBuilds' = 1 /\ _kd_tree'.v.data = coords')
    /\ (last'.op \in DistanceOps /\ last'.res.status = "ok"
            /\ ~(last'.op \in {"ball_iter", "knn_iter"} /\ last'.args.bulk <= 0))
        => HasAttr(_kd_tree')

C1_KdTreeBuiltOnce == [][C1_Step]_vars

\* C1 witness: nn was answered earlier (its cache is set), a later ball query
\* has returned, and still one tree has been constructed.
C1_Witness ==
    /\ Returned("ball")
    /\ HasAttr(_NN)
    /\ HasAttr(_kd_tree)
    /\ kdBuilds = 1

\* C2: concurrent first reads of a lazily built property construct it once,
\* and all readers get the same structure.
C2_SingleBuild ==
    /\ kdBuilds <= 1
    /\ rBuilds <= 1
    /\ \A t, u \in Threads :
        (pc[t] = "done" /\ pc[u] = "done"
            /\ got[t].status = "ok" /\ got[u].status = "ok")
        => got[t].value = got[u].value

\* C3: on an index built without a transform, ball(c, r) for one point c
\* (of at least dim coordinates, the first dim of which count) and r > 0
\* returns exactly the identifiers of the input points within Euclidean
\* distance r of c.
C3_BallIsBruteForce ==
    (BallOfPoint /\ input.v.transform.none
        /\ Len0(last.args.c.v) >= InputDim /\ last.args.r.v > 0)
    => last.res = Ok(BruteBall(input.v.coords, last.args.c.v, last.args.r.v))

\* C3 witness: such a ball query returned some of the points, not all.
C3_Witness ==
    /\ BallOfPoint /\ input.v.transform.none
    /\ last.res.status = "ok"
    /\ last.res.value # {}
    /\ last.res.value # DOMAIN coords

\* the input points after the transform of the index
TransformedInput ==
    [i \in DOMAIN input.v.coords |->
        transformPoint(input.v.coords[i], input.v.transform.v)]

C5_ChunkedEqualsUnchunked ==
    /\ (Called("ball_iter") /\ last.args.bulk >= 1) =>
        /\ HasAttr(_kd_tree)
        /\ last.res =
            Ok([i \in DOMAIN last.args.c |->
                query_ball_point(_kd_tree.v, last.args.c[i], last.args.r, "2").value])
    /\ (Called("knn_iter") /\ last.args.bulk >= 1) =>
        /\ HasAttr(_kd_tree)
        /\ \E tb \in TieBreaks :
            last.res =
                Ok([i \in DOMAIN last.args.c |->
                    query(_kd_tree.v, last.args.c[i], last.args.k, "2", tb).value])

\* C5 witness: knn_iter over two points with bulk size two, which divides the
\* batch exactly, has yielded two results.
C5_Witness ==
    /\ Returned("knn_iter")
    /\ Len0(last.args.c) = 2
    /\ last.args.bulk = 2
    /\ Len0(last.res.value) = 2

\* C6: sphere(c, r_min, r_max) with r_min < r_max is ball(c, r_max) minus
\* ball(c, r_min).
C6_SphereIsDifference ==
    (Called("sphere") /\ last.args.r_min < last.args.r_max
        /\ Len0(last.args.c) >= dim)
    => last.res = Ok(BruteBall(coords, Trunc(last.args.c), last.args.r_max)
                     \ BruteBall(coords, Trunc(last.args.c), last.args.r_min))

\* C7: closest(id) and nn never give a point itself as its nearest neighbour.
C7_NeverSelf ==
    /\ (Returned("closest") /\ ~last.args.ids.iter) =>
            last.res.value.ids # last.args.ids.v
    /\ (Returned("closest") /\ last.args.ids.iter) =>
            \A i \in DOMAIN last.args.ids.v :
                last.res.value.ids[i] # last.args.ids.v[i]
    /\ Returned("nn") =>
            \A i \in DOMAIN coords : last.res.value.ids[i] # i

\* C8: box(extent) completes and returns exactly the identifiers of the
\* stored points that lie within the bounds on every axis, bounds included.
C8_BoxReturnsPointsInExtent ==
    Called("box") =>
        last.res = Ok({i \in DOMAIN coords :
                        \A a \in Range0(dim) :
                            /\ last.args.extent[a] <= coords[i][a]
                            /\ coords[i][a] <= last.args.extent[dim + a]})

\* C9: slice(min_th, max_th, axis) with min_th <= max_th returns, in ascending
\* order, exactly the identifiers i with min_th <= coords[i][axis] <= max_th.
C9_SliceInclusive ==
    (Called("slice") /\ last.args.min_th <= last.args.max_th) =>
        last.res = Ok(Ascending({i \in DOMAIN coords :
                        /\ last.args.min_th <= PyIndex(coords[i], last.args.axis)
                        /\ PyIndex(coords[i], last.args.axis) <= last.args.max_th}))

\* a call has just ended by raising
Failing == last = Idle /\ last' # Idle /\ last'.res.status = "raise"
Cached == <<_kd_tree, _r_tree, _NN>>

\* C10 as stated: a query that raises leaves the snapshot, the transform and
\* the cached structures unchanged.
C10_FailedQueryChangesNothing ==
    [][Failing => UNCHANGED <<_coords, _transform, Cached>>]_vars

\* the tree a first successful query builds
FullTree == cKDTree(coords, _leafsize, _balanced, _compact)

\* C10 amended: a query that raises leaves the snapshot, the transform, the
\* r_tree and the nn cache unchanged, and the kd_tree either unchanged or,
\* when it was not there, completely built over the whole snapshot; no
\* cached structure is ever partial; and a ball query answered after a
\* failure returns what it returns on an index that has not failed.
C10_Step ==
    /\ Failing =>
        /\ UNCHANGED <<_coords, _transform, _r_tree, _NN>>
        /\ \/ _kd_tree' = _kd_tree
           \/ ~HasAttr(_kd_tree) /\ HasAttr(_kd_tree') /\ _kd_tree'.v = FullTree
    /\ HasAttr(_kd_tree') => _kd_tree'.v = FullTree'
    /\ HasAttr(_r_tree') => _r_tree'.v = Rtree(coords')

C10_AfterFailure ==
    (failed /\ BallOfPoint /\ last.res.status = "ok") =>
        last.res.value = BruteBall(coords, Trunc(last.args.c.v), last.args.r.v)

C10_FailedQueryKeepsIndexValid == [][C10_Step]_vars /\ []C10_AfterFailure

\* C10 witness: a query has raised on this index and a later ball query has
\* returned.
C10_Witness ==
    /\ failed
    /\ BallOfPoint
    /\ last.res.status = "ok"
    /\ HasAttr(_kd_tree)

\* C11: ball_iter and knn_iter called with a bulk size that is not positive,
\* and ball called with a radius that is not positive, raise the
\* invalid-parameter error (ValueError) and nothing else.
C11_InvalidParametersRejected ==
    /\ ((Called("ball_iter") \/ Called("knn_iter")) /\ last.args.bulk <= 0) =>
            last.res = Raise("ValueError")
    /\ (BallOfPoint /\ last.args.r.v <= 0) => last.res = Raise("ValueError")

\* C12: constructing an index with a leafsize that is not a positive integer,
\* or a quickbuild that is not a boolean, raises the invalid-parameter error
\* (ValueError) and gives no index object.
C12_InitRejectsInvalid ==
    (Called("__init__")
        /\ \/ ~last.args.leafsize.isint
           \/ ~Positive(last.args.leafsize)
           \/ ~last.args.quickbuild.isbool)
    => (last.res = Raise("ValueError") /\ ~Constructed)

\* C13: knn with one k per query point, and knns_iter, complete and give for
\* the i-th query point the distances and identifiers of its ks[i] nearest
\* stored points, one result per query point in input order.
C13_PerPointK ==
    /\ Called("knns_iter") =>
        \E tb \in TieBreaks :
            last.res =
                Ok([i \in DOMAIN last.args.c |->
                    query(FullTree, last.args.c[i], last.args.ks[i], "2", tb).value])
    /\ (Called("knn") /\ last.args.k.iter) =>
        /\ last.res.status = "ok"
        /\ Len0(last.res.value.ids) = Len0(last.args.c.v)

\* the identifiers of the stored points within an extent, bounds included
InExtent(extent) ==
    {i \in DOMAIN coords :
        \A a \in Range0(dim) :
            extent[a] <= coords[i][a] /\ coords[i][a] <= extent[dim + a]}

\* C14: box_count(extent) completes and returns the number of stored points
\* within the extent, the number of identifiers box(extent) is to return.
C14_BoxCountIsCardinality ==
    Called("box_count") =>
        last.res = Ok(Cardinality(InExtent(last.args.extent)))

\* C15: upper_ball(c, r) completes and returns exactly the members of
\* ball(c, r) whose coordinate on the axis is strictly greater than the
\* center's, lower_ball(c, r) those whose coordinate is strictly less.
C15_UpperLowerBall ==
    /\ Called("upper_ball") =>
        last.res =
            Ok({i \in BruteBall(coords, last.args.c, last.args.delta) :
                    PyIndex(coords[i], last.args.axis)
                        > PyIndex(last.args.c, last.args.axis)})
    /\ Called("lower_ball") =>
        last.res =
            Ok({i \in BruteBall(coords, last.args.c, last.args.delta) :
                    PyIndex(coords[i], last.args.axis)
                        < PyIndex(last.args.c, last.args.axis)})

\* C16: the r_tree is built once, on the first box query.  After a box query
\* the tree exists, holds all points and is the first one built; a tree that
\* exists is never replaced; a box query leaves the kd_tree alone and a
\* distance query leaves the r_tree alone.
C16_Step ==
    /\ (last = Idle /\ last'.op = "box") =>
        /\ HasAttr(_r_tree')
        /\ _r_tree'.v = Rtree(coords')
        /\ rBuilds' = 1
        /\ UNCHANGED <<_kd_tree, kdBuilds>>
    /\ HasAttr(_r_tree) => UNCHANGED <<_r_tree, rBuilds>>
    /\ last'.op \in DistanceOps => UNCHANGED <<_r_tree, rBuilds>>

C16_RTreeBuiltOnce == [][C16_Step]_vars

\* the second-nearest answer of a k=2 query for every stored point
SecondNearest(tb) ==
    [dists |-> [i \in DOMAIN coords |->
                    query(FullTree, coords[i], 2, "2", tb).value.dists[1]],
     ids |-> [i \in DOMAIN coords |->
                    query(FullTree, coords[i], 2, "2", tb).value.ids[1]]]

\* C17: nn is memoized.  The step that sets the cache is an nn access and
\* stores position 1 of one k=2 query over the whole snapshot; once set the
\* cache never changes, whatever is called; every nn access returns the
\* cached pair, and an access that finds the cache set leaves the tree and
\* the build count alone.
C17_Step ==
    /\ HasAttr(_NN) => UNCHANGED _NN
    /\ (~HasAttr(_NN) /\ HasAttr(_NN')) =>
        /\ last'.op = "nn"
        /\ \E tb \in TieBreaks : _NN'.v = SecondNearest(tb)
    /\ (last = Idle /\ last'.op = "nn") =>
        /\ HasAttr(_NN')
        /\ last'.res = Ok(_NN'.v)
        /\ last'.args.cached => UNCHANGED <<_kd_tree, kdBuilds>>

C17_NNMemoized == [][C17_Step]_vars

\* C17 witness: nn was accessed, a query has failed on the index, and a later
\* nn access found the cache set and returned.
C17_Witness ==
    /\ Returned("nn")
    /\ last.args.cached
    /\ failed
    /\ HasAttr(_NN)

\* C18: len(index) is the number n of input points and index.dim the number
\* k of their coordinates, right after construction and after any sequence
\* of queries, successful or failing.
C18_LenDimFixed ==
    Constructed =>
        /\ len = Len0(input.v.coords)
        /\ dim = Len0(input.v.coords[0])

\* C18 witness: an index of two points on which a query has failed and a
\* later query has returned.
C18_Witness ==
    /\ Constructed
    /\ len = 2
    /\ failed
    /\ last # Idle
    /\ last.res.status = "ok"

====
